---- MODULE Spec2Model ----
(***************************************************************************)
(* Model of the per-connection control plane of yomo: StreamGroup          *)
(* (VerifyAuthentication, authFailed, authOK, Run, Wait) together with the *)
(* frame type codes of core/frame.  One connection is modelled: its        *)
(* control stream, the transport streams Run opens, the Connector, the     *)
(* WaitGroup and the goroutines Run spawns.                                *)
(***************************************************************************)
EXTENDS Integers, Sequences, FiniteSets, TLC

\* ---------------------------------------------------------------- bounds
\* number of control frames Run reads in one behaviour
MaxFrames == 3

\* number of transport streams Run opens in one behaviour
MaxStreams == 2

\* stream ids a client may put in HandshakeFrame / CloseStreamFrame
StreamIDs == {"s1", "s2"}

\* ------------------------------------------------- frame.go: type codes
TypeAuthenticationAckFrame == 17
TypeHandshakeAckFrame == 41

\* what the first ReadFrame of VerifyAuthentication can give besides an
\* error: an AuthenticationFrame, or a frame of another type (the type
\* assertion tells no more apart)
FirstKinds == {"Authentication", "Data"}

\* frames that match no case of the type switch of Run
OtherKinds == {"Authentication", "Data"}

\* zero value of a Go string
EmptyString == ""

\* error values: nil, and one value per place an error can come from
Nil == "nil"
ErrRead == "readErr"
ErrVerify == "verifyErr"
ErrWrite == "writeErr"
ErrClose == "closeErr"
ErrOpen == "openErr"

VARIABLES
    authPc,      \* "start" | "returned": VerifyAuthentication
    authRet,     \* the error VerifyAuthentication returned
    authFirst,   \* what the first ReadFrame of the control stream gave
    authVerdict, \* what verifyFunc gave: "notcalled","accept","reject","error"
    ctrlOut,     \* frames handed to controlStream.WriteFrame, in order
    connCloses,  \* codes of the conn.CloseWithError calls, in order
    runPc,       \* "idle" | "Reading" | "returned": Run
    runRet,      \* the error Run returned
    streams,     \* transport streams opened by conn.OpenStreamSync
    connector,   \* Connector: stream id -> index in streams, 0 = absent
    group,       \* sync.WaitGroup counter
    log,         \* one entry per control frame Run has read (history)
    waitPc,      \* "idle" | "waiting" | "returned": Wait
    crashed,     \* the process died of a panic nothing recovered
    mu,          \* connection.mu: the writer holding it, 0 = unlocked
    wpc,         \* connection.Write: where each caller is
    wdone,       \* connection.Write: frames each caller has written
    wire         \* bytes the stream of the connection has received

vars == <<authPc, authRet, authFirst, authVerdict, ctrlOut, connCloses,
          runPc, runRet, streams, connector, group, log, waitPc, crashed,
          mu, wpc, wdone, wire>>

authVars == <<authPc, authRet, authFirst, authVerdict, ctrlOut, connCloses>>
runVars == <<runPc, runRet, streams, connector, group, log>>
connVars == <<mu, wpc, wdone, wire>>

\* ------------------------------------------------------------ frames
\* frame.NewAuthenticationRespFrame(ok, reason)
NewAuthenticationRespFrame(ok, reason) ==
    [type |-> TypeAuthenticationAckFrame, ok |-> ok, reason |-> reason]

\* frame.NewHandshakeAckFrame(): called without arguments, so the
\* StreamID field of the frame keeps its zero value
NewHandshakeAckFrame ==
    [type |-> TypeHandshakeAckFrame, StreamID |-> EmptyString]

\* ------------------------------------------------ VerifyAuthentication
\* what one call leaves behind: the frames it handed to WriteFrame, the
\* codes it passed to CloseWithError, the error it returned
AuthOutcome(out, closes, ret) == [out |-> out, closes |-> closes, ret |-> ret]

\* variant of authFailed: the response frame carries ok=true
authFailed_OkFlag(se, writeOK, closeOK) ==
    LET resp == NewAuthenticationRespFrame(TRUE, se) IN
    IF ~writeOK
    THEN AuthOutcome(<<resp>>, <<>>, ErrWrite)
    ELSE AuthOutcome(<<resp>>, <<"Rejected">>, IF closeOK THEN Nil ELSE ErrClose)

\* StreamGroup.authFailed(se): the response is written first; a failed
\* write returns before CloseWithError is reached, and after a successful
\* write the error returned is the one CloseWithError gave (se is dropped)
authFailed(se, writeOK, closeOK) ==
    LET resp == NewAuthenticationRespFrame(FALSE, se) IN
    IF ~writeOK
    THEN AuthOutcome(<<resp>>, <<>>, ErrWrite)
    ELSE AuthOutcome(<<resp>>, <<"Rejected">>, IF closeOK THEN Nil ELSE ErrClose)

\* StreamGroup.authOK()
authOK(writeOK) ==
    AuthOutcome(<<NewAuthenticationRespFrame(TRUE, EmptyString)>>, <<>>,
                IF writeOK THEN Nil ELSE ErrWrite)

\* variant of VerifyAuthenticationBody: an error of verifyFunc is answered
\* like a rejected credential
VerifyAuthenticationBody_RespondOnVerifyErr(first, verdict, writeOK, closeOK) ==
    IF first = ErrRead
    THEN AuthOutcome(<<>>, <<>>, ErrRead)
    ELSE IF first # "Authentication"
    THEN AuthOutcome(<<>>, <<>>, Nil)
    ELSE IF verdict = "error"
    THEN [authFailed("authentication failed", writeOK, closeOK)
             EXCEPT !.ret = ErrVerify]
    ELSE IF verdict = "reject"
    THEN authFailed("authentication failed", writeOK, closeOK)
    ELSE authOK(writeOK)

\* variant of VerifyAuthenticationBody: a failed first read is answered
\* like a rejected credential
VerifyAuthenticationBody_RespondOnReadErr(first, verdict, writeOK, closeOK) ==
    IF first = ErrRead
    THEN [authFailed("authentication failed", writeOK, closeOK)
             EXCEPT !.ret = ErrRead]
    ELSE IF first # "Authentication"
    THEN AuthOutcome(<<>>, <<>>, Nil)
    ELSE IF verdict = "error"
    THEN AuthOutcome(<<>>, <<>>, ErrVerify)
    ELSE IF verdict = "reject"
    THEN authFailed("authentication failed", writeOK, closeOK)
    ELSE authOK(writeOK)

\* the body of StreamGroup.VerifyAuthentication; first is the result of
\* controlStream.ReadFrame, verdict the result of verifyFunc
VerifyAuthenticationBody(first, verdict, writeOK, closeOK) ==
    IF first = ErrRead
    THEN AuthOutcome(<<>>, <<>>, ErrRead)
    ELSE IF first # "Authentication"
    THEN AuthOutcome(<<>>, <<>>, Nil)       \* `return err` with err == nil
    ELSE IF verdict = "error"
    THEN AuthOutcome(<<>>, <<>>, ErrVerify)
    ELSE IF verdict = "reject"
    THEN authFailed("authentication failed", writeOK, closeOK)
    ELSE authOK(writeOK)

\* verifyFunc is reached only with an AuthenticationFrame
VerdictSeen(first, verdict) ==
    IF first = "Authentication" THEN verdict ELSE "notcalled"

VerifyAuthentication ==
    /\ authPc = "start" /\ ~crashed
    /\ \E first \in FirstKinds \cup {ErrRead},
          verdict \in {"accept", "reject", "error"},
          writeOK \in BOOLEAN, closeOK \in BOOLEAN :
         LET r == VerifyAuthenticationBody(first, verdict, writeOK, closeOK) IN
         /\ authFirst' = first
         /\ authVerdict' = VerdictSeen(first, verdict)
         /\ ctrlOut' = ctrlOut \o r.out
         /\ connCloses' = connCloses \o r.closes
         /\ authRet' = r.ret
    /\ authPc' = "returned"
    /\ UNCHANGED <<runVars, waitPc, crashed, connVars>>

\* ------------------------------------------------------------ Connector
\* Connector.Get(id): index of the stream registered under id, 0 if none
ConnectorGet(c, id) == c[id]

\* Connector.Remove(id): removing an absent id changes nothing
ConnectorRemove(c, id) == [c EXCEPT ![id] = 0]

\* Connector.Add(id, stream): an entry already under id is replaced
ConnectorAdd(c, id, idx) == [c EXCEPT ![id] = idx]

\* DataStream.Close(): counted per stream; the transport is closed unless
\* the call fails
StreamClose(strs, i, closeOK) ==
    [strs EXCEPT ![i].closeCalls = @ + 1, ![i].closed = @ \/ closeOK]

\* Connector.Add closes the stream it replaces
CloseReplaced(strs, c, id) ==
    IF c[id] = 0 THEN strs ELSE StreamClose(strs, c[id], TRUE)

\* ------------------------------------------------------------------ Run
ConnClosed == connCloses # <<>>

\* the caller starts Run after VerifyAuthentication returned nil
RunStart ==
    /\ authPc = "returned" /\ authRet = Nil
    /\ runPc = "idle" /\ ~crashed
    /\ runPc' = "Reading"
    /\ UNCHANGED <<authVars, runRet, streams, connector, group, log, waitPc, crashed, connVars>>

\* quic stream returned by conn.OpenStreamSync, after the
\* stream.Write(ack) whose result Run does not look at
OpenedStream(id, writeOK) ==
    [hid |-> id,
     written |-> IF writeOK THEN <<NewHandshakeAckFrame>> ELSE <<>>,
     closeCalls |-> 0, closed |-> FALSE, task |-> "none",
     cleaned |-> FALSE, panicked |-> FALSE]

\* controlStream.ReadFrame failed: Run returns the error
ReadErrorCase ==
    /\ runPc' = "returned" /\ runRet' = ErrRead
    /\ UNCHANGED <<streams, connector, group>>

\* variant of RegisterCase: connector.Add is missing
RegisterCase_NoAdd(id, writeOK) ==
    /\ streams' = Append(streams,
                         [OpenedStream(id, writeOK) EXCEPT !.task = "callback"])
    /\ group' = group + 1
    /\ UNCHANGED <<connector, runPc, runRet>>

\* variant of RegisterCase: group.Add(1) is missing
RegisterCase_NoGroupAdd(id, writeOK) ==
    /\ streams' = Append(CloseReplaced(streams, connector, id),
                         [OpenedStream(id, writeOK) EXCEPT !.task = "callback"])
    /\ connector' = ConnectorAdd(connector, id, Len(streams) + 1)
    /\ UNCHANGED <<group, runPc, runRet>>

\* newDataStream, connector.Add, group.Add(1), go func(){...}
RegisterCase(id, writeOK) ==
    /\ streams' = Append(CloseReplaced(streams, connector, id),
                         [OpenedStream(id, writeOK) EXCEPT !.task = "callback"])
    /\ connector' = ConnectorAdd(connector, id, Len(streams) + 1)
    /\ group' = group + 1
    /\ UNCHANGED <<runPc, runRet>>

\* variant of BuildFailedCase: the `continue` is missing
BuildFailedCase_NoContinue(id, writeOK) == RegisterCase(id, writeOK)

\* mb.Build failed: warn and continue; the opened stream stays as it is
BuildFailedCase(id, writeOK) ==
    /\ streams' = Append(streams, OpenedStream(id, writeOK))
    /\ UNCHANGED <<connector, group, runPc, runRet>>

\* variant of HandshakeCase: an error of mb.Build is returned
HandshakeCase_BuildErrFatal(id, openOK, writeOK, buildOK) ==
    IF ~openOK
    THEN /\ runPc' = "returned" /\ runRet' = ErrOpen
         /\ UNCHANGED <<streams, connector, group>>
    ELSE IF ~buildOK
    THEN /\ streams' = Append(streams, OpenedStream(id, writeOK))
         /\ runPc' = "returned" /\ runRet' = "buildErr"
         /\ UNCHANGED <<connector, group>>
    ELSE RegisterCase(id, writeOK)

\* case *frame.HandshakeFrame
HandshakeCase(id, openOK, writeOK, buildOK) ==
    IF ~openOK
    THEN /\ runPc' = "returned" /\ runRet' = ErrOpen
         /\ UNCHANGED <<streams, connector, group>>
    ELSE IF ~buildOK
    THEN BuildFailedCase(id, writeOK)
    ELSE RegisterCase(id, writeOK)

\* variant of CloseStreamCase: connector.Remove is missing
CloseStreamCase_NoRemove(id, closeOK) ==
    LET idx == ConnectorGet(connector, id) IN
    IF idx = 0
    THEN UNCHANGED <<streams, connector, group, runPc, runRet>>
    ELSE /\ streams' = StreamClose(streams, idx, closeOK)
         /\ UNCHANGED <<connector, group, runPc, runRet>>

\* variant of CloseStreamCase: an error of stream.Close skips the rest of
\* the iteration
CloseStreamCase_SkipOnCloseErr(id, closeOK) ==
    LET idx == ConnectorGet(connector, id) IN
    IF idx = 0
    THEN UNCHANGED <<streams, connector, group, runPc, runRet>>
    ELSE /\ streams' = StreamClose(streams, idx, closeOK)
         /\ connector' = IF closeOK THEN ConnectorRemove(connector, id)
                         ELSE connector
         /\ UNCHANGED <<group, runPc, runRet>>

\* case *frame.CloseStreamFrame; an error of stream.Close is only logged
CloseStreamCase(id, closeOK) ==
    LET idx == ConnectorGet(connector, id) IN
    IF idx = 0
    THEN UNCHANGED <<streams, connector, group, runPc, runRet>>
    ELSE /\ streams' = StreamClose(streams, idx, closeOK)
         /\ connector' = ConnectorRemove(connector, id)
         /\ UNCHANGED <<group, runPc, runRet>>

\* variant of OtherCase: a default case that returns an error
OtherCase_DefaultReturns ==
    /\ runPc' = "returned" /\ runRet' = "unexpectedFrame"
    /\ UNCHANGED <<streams, connector, group>>

\* a frame of any other type falls through the switch
OtherCase == UNCHANGED <<streams, connector, group, runPc, runRet>>

TotalCloseCalls(strs) ==
    LET RECURSIVE Sum(_)
        Sum(n) == IF n = 0 THEN 0 ELSE strs[n].closeCalls + Sum(n - 1)
    IN Sum(Len(strs))

SpawnedTasks(strs) == Cardinality({i \in 1..Len(strs) : strs[i].task # "none"})

\* history entry of one iteration, taken from what the iteration did
TotalWritten(strs) ==
    LET RECURSIVE Sum(_)
        Sum(n) == IF n = 0 THEN 0 ELSE Len(strs[n].written) + Sum(n - 1)
    IN Sum(Len(strs))

\* the goroutines spawned so far that have not finished
RunningTasks(strs) ==
    {i \in 1..Len(strs) : strs[i].task \in {"callback", "clean", "cleaned"}}

LogEntry(kind, id, open, ack, build, close) ==
    [kind |-> kind, id |-> id, open |-> open, ack |-> ack, build |-> build,
     close |-> close,
     before |-> connector, after |-> connector',
     ctrlWrites |-> Len(ctrlOut') - Len(ctrlOut),
     streamWrites |-> TotalWritten(streams') - TotalWritten(streams),
     tasksTouched |-> \E i \in 1..Len(streams) :
                          streams'[i].task # streams[i].task,
     groupDelta |-> group' - group,
     opened |-> Len(streams') - Len(streams),
     closes |-> TotalCloseCalls(streams') - TotalCloseCalls(streams),
     spawned |-> SpawnedTasks(streams') - SpawnedTasks(streams),
     pc |-> runPc', ret |-> runRet']

Outcome(b) == IF b THEN "ok" ELSE "fail"

\* one iteration of the for loop of Run: ReadFrame, then the type switch
RunReadError ==
    /\ runPc = "Reading" /\ Len(log) < MaxFrames /\ ~crashed
    /\ ReadErrorCase
    /\ UNCHANGED <<authVars, waitPc, crashed, connVars>>
    /\ log' = Append(log, LogEntry(ErrRead, EmptyString, "na", "na", "na", "na"))

RunHandshake ==
    /\ runPc = "Reading" /\ Len(log) < MaxFrames /\ ~crashed /\ ~ConnClosed
    /\ Len(streams) < MaxStreams
    /\ UNCHANGED <<authVars, waitPc, crashed, connVars>>
    /\ \E id \in StreamIDs, openOK \in BOOLEAN, writeOK \in BOOLEAN,
          buildOK \in BOOLEAN :
         /\ ~openOK => (writeOK /\ buildOK)   \* not reached: one case
         /\ HandshakeCase(id, openOK, writeOK, buildOK)
         /\ log' = Append(log, LogEntry("Handshake", id, Outcome(openOK),
                            IF openOK THEN Outcome(writeOK) ELSE "na",
                            IF openOK THEN Outcome(buildOK) ELSE "na", "na"))

RunCloseStream ==
    /\ runPc = "Reading" /\ Len(log) < MaxFrames /\ ~crashed /\ ~ConnClosed
    /\ UNCHANGED <<authVars, waitPc, crashed, connVars>>
    /\ \E id \in StreamIDs, closeOK \in BOOLEAN :
         /\ ConnectorGet(connector, id) = 0 => closeOK   \* not reached: one case
         /\ CloseStreamCase(id, closeOK)
         /\ log' = Append(log, LogEntry("CloseStream", id, "na", "na", "na",
                            IF ConnectorGet(connector, id) = 0 THEN "na"
                            ELSE Outcome(closeOK)))

RunOther ==
    /\ runPc = "Reading" /\ Len(log) < MaxFrames /\ ~crashed /\ ~ConnClosed
    /\ UNCHANGED <<authVars, waitPc, crashed, connVars>>
    /\ \E kind \in OtherKinds :
         /\ OtherCase
         /\ log' = Append(log, LogEntry(kind, EmptyString, "na", "na", "na", "na"))

\* ------------------------------------------- the goroutine of a stream
\* contextFunc(c) returns
CallbackReturn(i) ==
    /\ streams[i].task = "callback" /\ ~crashed
    /\ streams' = [streams EXCEPT ![i].task = "clean"]
    /\ UNCHANGED <<authVars, runPc, runRet, connector, group, log, waitPc, crashed, connVars>>

\* defer c.Clean()
ContextClean(i) ==
    /\ streams[i].task = "clean" /\ ~crashed
    /\ streams' = [streams EXCEPT ![i].task = "cleaned", ![i].cleaned = TRUE]
    /\ UNCHANGED <<authVars, runPc, runRet, connector, group, log, waitPc, crashed, connVars>>

\* variant of GroupDone: the counter is not decremented
GroupDone_NoDecrement(i) ==
    /\ streams[i].task = "cleaned" /\ ~crashed
    /\ streams' = [streams EXCEPT ![i].task = "done"]
    /\ UNCHANGED <<authVars, runPc, runRet, connector, group, log, waitPc, crashed, connVars>>

\* variant of GroupDone: Done is deferred after Clean, so it runs first and
\* the goroutine counts as finished before Clean has run
GroupDone_BeforeClean(i) ==
    /\ streams[i].task = "clean" /\ ~crashed
    /\ streams' = [streams EXCEPT ![i].task = "done"]
    /\ group' = group - 1
    /\ UNCHANGED <<authVars, runPc, runRet, connector, log, waitPc, crashed, connVars>>

\* defer g.group.Done()
GroupDone(i) ==
    /\ streams[i].task = "cleaned" /\ ~crashed
    /\ streams' = [streams EXCEPT ![i].task = "done"]
    /\ group' = group - 1
    /\ UNCHANGED <<authVars, runPc, runRet, connector, log, waitPc, crashed, connVars>>

\* contextFunc(c) panics: the deferred calls of the goroutine still run
CallbackPanic(i) ==
    /\ streams[i].task = "callback" /\ ~crashed
    /\ streams' = [streams EXCEPT ![i].task = "clean", ![i].panicked = TRUE]
    /\ UNCHANGED <<authVars, runPc, runRet, connector, group, log, waitPc, crashed, connVars>>

\* nothing recovers the panic: once the deferred calls of the goroutine
\* have run, the process exits
ProcessCrash(i) ==
    /\ streams[i].task = "done" /\ streams[i].panicked /\ ~crashed
    /\ crashed' = TRUE
    /\ UNCHANGED <<authVars, runVars, waitPc, connVars>>

\* ----------------------------------------------------------------- Wait
WaitCall ==
    /\ runPc = "returned" /\ waitPc = "idle" /\ ~crashed
    /\ waitPc' = "waiting"
    /\ UNCHANGED <<authVars, runVars, crashed, connVars>>

\* g.group.Wait() returns when the counter is zero
WaitReturn ==
    /\ waitPc = "waiting" /\ group = 0 /\ ~crashed
    /\ waitPc' = "returned"
    /\ UNCHANGED <<authVars, runVars, crashed, connVars>>

\* the caller closes the data streams still in the Connector once Run
\* has returned (connector snapshot); the entries stay
CallerClose(id) ==
    /\ runPc = "returned" /\ ~crashed
    /\ connector[id] # 0 /\ ~streams[connector[id]].closed
    /\ streams' = StreamClose(streams, connector[id], TRUE)
    /\ UNCHANGED <<authVars, runPc, runRet, connector, group, log, waitPc, crashed, connVars>>

\* ------------------------------------------------------ connection.Write
\* callers of connection.Write on one connection
NumWriters == 2

\* frames each caller writes
MaxWrites == 2

\* f.Encode(): the bytes of one frame; stream.Write hands them to the
\* stream one after the other
EncodedFrame == <<"head", "body">>

Writers == 1..NumWriters

ConnInit ==
    /\ mu = 0
    /\ wpc = [w \in Writers |-> "idle"]
    /\ wdone = [w \in Writers |-> 0]
    /\ wire = <<>>

\* bytes of the frame caller w is writing that are on the wire
Sent(w) ==
    Cardinality({p \in 1..Len(wire) :
                    wire[p].writer = w /\ wire[p].frame = wdone[w] + 1})

\* variant of WriteLock: the mutex is not taken
WriteLock_NoMutex(w) ==
    /\ wpc[w] = "idle" /\ wdone[w] < MaxWrites
    /\ wpc' = [wpc EXCEPT ![w] = "writing"]
    /\ UNCHANGED <<mu, wdone, wire>>
    /\ UNCHANGED <<authVars, runVars, waitPc, crashed>>

\* c.mu.Lock(): blocks while another caller holds the mutex
WriteLock(w) ==
    /\ wpc[w] = "idle" /\ wdone[w] < MaxWrites
    /\ mu = 0
    /\ mu' = w
    /\ wpc' = [wpc EXCEPT ![w] = "writing"]
    /\ UNCHANGED <<wdone, wire>>
    /\ UNCHANGED <<authVars, runVars, waitPc, crashed>>

\* c.stream.Write(f.Encode()): the next byte of the frame reaches the stream
StreamWriteByte(w) ==
    /\ wpc[w] = "writing" /\ Sent(w) < Len(EncodedFrame)
    /\ wire' = Append(wire, [writer |-> w, frame |-> wdone[w] + 1,
                              byte |-> EncodedFrame[Sent(w) + 1]])
    /\ UNCHANGED <<mu, wpc, wdone>>
    /\ UNCHANGED <<authVars, runVars, waitPc, crashed>>

\* stream.Write returned nil; defer c.mu.Unlock()
WriteUnlock(w) ==
    /\ wpc[w] = "writing" /\ Sent(w) = Len(EncodedFrame)
    /\ mu' = 0
    /\ wdone' = [wdone EXCEPT ![w] = @ + 1]
    /\ wpc' = [wpc EXCEPT ![w] = "idle"]
    /\ UNCHANGED wire
    /\ UNCHANGED <<authVars, runVars, waitPc, crashed>>

\* stream.Write returned an error before the whole frame was written;
\* defer c.mu.Unlock(), and the caller gets the error
WriteFail(w) ==
    /\ wpc[w] = "writing" /\ Sent(w) < Len(EncodedFrame)
    /\ mu' = 0
    /\ wpc' = [wpc EXCEPT ![w] = "failed"]
    /\ UNCHANGED <<wdone, wire>>
    /\ UNCHANGED <<authVars, runVars, waitPc, crashed>>

WriteNext ==
    \/ \E w \in Writers : WriteLock(w)
    \/ \E w \in Writers : StreamWriteByte(w)
    \/ \E w \in Writers : WriteUnlock(w)
    \/ \E w \in Writers : WriteFail(w)

\* ---------------------------------------------------------------- spec
Init ==
    /\ authPc = "start" /\ authRet = "pending"
    /\ authFirst = "none" /\ authVerdict = "notcalled"
    /\ ctrlOut = <<>> /\ connCloses = <<>>
    /\ runPc = "idle" /\ runRet = "pending"
    /\ streams = <<>>
    /\ connector = [id \in StreamIDs |-> 0]
    /\ group = 0
    /\ log = <<>>
    /\ waitPc = "idle"
    /\ crashed = FALSE
    /\ ConnInit

Next ==
    \/ VerifyAuthentication
    \/ RunStart
    \/ RunReadError
    \/ RunHandshake
    \/ RunCloseStream
    \/ RunOther
    \/ \E i \in 1..Len(streams) : CallbackReturn(i)
    \/ \E i \in 1..Len(streams) : ContextClean(i)
    \/ \E i \in 1..Len(streams) : GroupDone(i)
    \/ \E id \in StreamIDs : CallerClose(id)
    \/ WaitCall
    \/ WaitReturn

Spec == Init /\ [][Next]_vars

\* number of control frames Run reads in a behaviour of PanicSpec
MaxPanicFrames == 2

\* the behaviours in which callbacks may also panic
PanicNext ==
    /\ \/ Next
       \/ \E i \in 1..Len(streams) : CallbackPanic(i)
       \/ \E i \in 1..Len(streams) : ProcessCrash(i)
    /\ Len(log') <= MaxPanicFrames

PanicSpec == Init /\ [][PanicNext]_vars

\* concurrent callers of connection.Write on one connection
WriteSpec == Init /\ [][WriteNext]_vars

\* number of control frames Run reads in a behaviour of LiveSpec
MaxLiveFrames == 2

\* a callback returns once its stream is closed (it sees the read error)
CallbackReturnsOnClose(i) ==
    /\ i \in 1..Len(streams) /\ streams[i].closed
    /\ CallbackReturn(i)

DeferredClean(i) == i \in 1..Len(streams) /\ ContextClean(i)

DeferredDone(i) == i \in 1..Len(streams) /\ GroupDone(i)

LiveNext == Next /\ Len(log') <= MaxLiveFrames

\* the scheduler runs every goroutine that can take a step: the deferred
\* calls of a goroutine whose callback returned, and a Wait whose counter
\* is zero
LiveSpec ==
    /\ Init /\ [][LiveNext]_vars
    /\ \A i \in 1..MaxStreams : WF_vars(CallbackReturnsOnClose(i))
    /\ \A i \in 1..MaxStreams : WF_vars(DeferredClean(i))
    /\ \A i \in 1..MaxStreams : WF_vars(DeferredDone(i))
    /\ WF_vars(WaitReturn)

\* ============================================================== claims
AuthReturned == authPc = "returned"

RespFrames(ok) == {i \in 1..Len(ctrlOut) : ctrlOut[i].ok = ok}

\* a DataStream was built on stream i and handed to connector.Add
Registered(i) == streams[i].task # "none"

\* the goroutine of stream i has been spawned and has not returned
TaskRunning(i) == streams[i].task \in {"callback", "clean", "cleaned"}

\* C1: when the first frame of the control stream is not an
\* AuthenticationFrame, VerifyAuthentication writes a response with
\* ok=false, closes the connection with the Rejected code and returns an
\* error, never success.
C1_NonAuthFirstFrameRejected ==
    (AuthReturned /\ authFirst \in FirstKinds \ {"Authentication"}) =>
        /\ RespFrames(FALSE) # {}
        /\ connCloses = <<"Rejected">>
        /\ authRet # Nil

\* C2: after verifyFunc rejects the credential, the connection is closed
\* with the Rejected code in every execution, also when writing the
\* response fails.
C2_RejectedAlwaysClosed ==
    (AuthReturned /\ authVerdict = "reject") => connCloses = <<"Rejected">>

\* C3: after verifyFunc rejects the credential, VerifyAuthentication
\* returns an error whatever the write and the close gave.
C3_RejectedNeverSuccess ==
    (AuthReturned /\ authVerdict = "reject") => authRet # Nil

\* C4: an error of verifyFunc is returned to the caller, no response
\* frame is written and the connection is not closed.
C4_VerifyErrorPropagated ==
    (AuthReturned /\ authVerdict = "error") =>
        /\ authRet = ErrVerify
        /\ ctrlOut = <<>>
        /\ connCloses = <<>>

C4_Witness == AuthReturned /\ authVerdict = "error" /\ authRet = ErrVerify

\* C5: at most one AuthenticationRespFrame is written on the control
\* stream, and one with ok=true only after an AuthenticationFrame that
\* verifyFunc accepted without error.
C5_AtMostOneResp ==
    /\ Len(ctrlOut) <= 1
    /\ \A i \in 1..Len(ctrlOut) : ctrlOut[i].type = TypeAuthenticationAckFrame
    /\ RespFrames(TRUE) # {} =>
           (authFirst = "Authentication" /\ authVerdict = "accept")

C5_Witness ==
    /\ AuthReturned /\ authVerdict = "accept"
    /\ Len(ctrlOut) = 1 /\ ctrlOut[1].ok

\* C6: on every transport stream that carries a registered DataStream,
\* the first frame written is a HandshakeAckFrame whose stream id is the
\* id of the handshake.
C6_AckCarriesHandshakeId ==
    \A i \in 1..Len(streams) :
        Registered(i) =>
            /\ Len(streams[i].written) >= 1
            /\ streams[i].written[1].type = TypeHandshakeAckFrame
            /\ streams[i].written[1].StreamID = streams[i].hid

\* C7: a handshake whose stream open or whose ack write fails ends Run
\* with an error, and registers no DataStream and spawns no task.
C7_HandshakeTransportFailureFatal ==
    \A k \in 1..Len(log) :
        (log[k].kind = "Handshake" /\ (log[k].open = "fail" \/ log[k].ack = "fail")) =>
            /\ log[k].pc = "returned" /\ log[k].ret \in {ErrOpen, ErrWrite}
            /\ log[k].after = log[k].before
            /\ log[k].spawned = 0

\* C8: when mb.Build fails, the Connector and the WaitGroup stay as they
\* were, no task is spawned, the opened stream is not closed, and Run
\* goes on reading.
C8_BuildFailureSkipsHandshake ==
    \A k \in 1..Len(log) :
        (log[k].kind = "Handshake" /\ log[k].build = "fail") =>
            /\ log[k].after = log[k].before
            /\ log[k].groupDelta = 0
            /\ log[k].spawned = 0
            /\ log[k].opened = 1 /\ log[k].closes = 0
            /\ log[k].pc = "Reading" /\ log[k].ret = "pending"

\* a failed build, and a frame read and handled after it
C8_Witness ==
    \E k \in 1..Len(log) :
        /\ log[k].kind = "Handshake" /\ log[k].build = "fail"
        /\ k < Len(log) /\ log[k + 1].kind = "Handshake" /\ log[k + 1].build = "ok"

\* C9: a stream id is in the Connector exactly when a task spawned for it
\* has not returned, and then exactly one such task is running.
C9_ConnectorIffTaskRunning ==
    \A id \in StreamIDs :
        LET running == {i \in 1..Len(streams) :
                            streams[i].hid = id /\ TaskRunning(i)}
        IN /\ (connector[id] # 0) <=> (running # {})
           /\ connector[id] # 0 => Cardinality(running) = 1

\* C10: of two consecutive CloseStreamFrames for one id, the first closes
\* the registered stream and removes the entry, the second finds the id
\* absent and neither closes nor removes; the stream has been closed
\* exactly once and Run goes on after both.
C10_CloseStreamIdempotent ==
    \A k \in 1..(Len(log) - 1) :
        (/\ log[k].kind = "CloseStream" /\ log[k + 1].kind = "CloseStream"
         /\ log[k].id = log[k + 1].id) =>
            LET id == log[k].id
                idx == log[k].before[id]
            IN /\ log[k + 1].before[id] = 0
               /\ log[k + 1].closes = 0
               /\ log[k + 1].after = log[k + 1].before
               /\ log[k].pc = "Reading" /\ log[k + 1].pc = "Reading"
               /\ idx # 0 =>
                    /\ log[k].closes = 1
                    /\ log[k].after = [log[k].before EXCEPT ![id] = 0]
                    /\ streams[idx].closeCalls = 1

C10_Witness ==
    \E k \in 1..(Len(log) - 1) :
        /\ log[k].kind = "CloseStream" /\ log[k + 1].kind = "CloseStream"
        /\ log[k].id = log[k + 1].id
        /\ log[k].before[log[k].id] # 0
        /\ runPc = "Reading"

\* ids present in a Connector
Present(c) == {id \in StreamIDs : c[id] # 0}

\* entry k of the log is a handshake that registered a DataStream
RegisteredAt(k) ==
    log[k].kind = "Handshake" /\ log[k].open = "ok" /\ log[k].build = "ok"

\* C11: for the input [H1, H2, Close(H1.id)] with distinct ids and
\* successful builds, read with an empty Connector, the Connector holds
\* H1, then H1 and H2, then only H2, each id bound to its own stream.
C11_ConnectorSequence ==
    \A k \in 1..(Len(log) - 2) :
        (/\ RegisteredAt(k) /\ RegisteredAt(k + 1)
         /\ log[k].id # log[k + 1].id
         /\ log[k + 2].kind = "CloseStream" /\ log[k + 2].id = log[k].id
         /\ Present(log[k].before) = {}) =>
            /\ Present(log[k].after) = {log[k].id}
            /\ log[k + 1].before = log[k].after
            /\ Present(log[k + 1].after) = {log[k].id, log[k + 1].id}
            /\ log[k + 2].before = log[k + 1].after
            /\ Present(log[k + 2].after) = {log[k + 1].id}
            /\ log[k + 2].after[log[k + 1].id] = log[k + 1].after[log[k + 1].id]
            /\ streams[log[k].after[log[k].id]].hid = log[k].id
            /\ streams[log[k + 1].after[log[k + 1].id]].hid = log[k + 1].id

C11_Witness ==
    /\ Len(log) = 3
    /\ RegisteredAt(1) /\ RegisteredAt(2) /\ log[1].id # log[2].id
    /\ log[3].kind = "CloseStream" /\ log[3].id = log[1].id
    /\ Present(connector) = {log[2].id}

\* C12: right after two back-to-back HandshakeFrames with one id, the
\* Connector's entry is the second DataStream, the first DataStream has
\* been closed and the task of the first has exited.
C12_DuplicateIdReplaces ==
    \A k \in 1..(Len(log) - 1) :
        (/\ RegisteredAt(k) /\ RegisteredAt(k + 1)
         /\ log[k].id = log[k + 1].id /\ Len(log) = k + 1) =>
            LET first == log[k].after[log[k].id]
                second == log[k + 1].after[log[k].id]
            IN /\ second # first /\ connector[log[k].id] = second
               /\ streams[first].closed
               /\ streams[first].task = "done"

\* a Wait in progress after Run returned, every DataStream closed
WaitPre ==
    /\ runPc = "returned" /\ waitPc = "waiting"
    /\ \A i \in 1..Len(streams) : Registered(i) => streams[i].closed

\* C13: once Run has returned and every registered data stream is closed,
\* a Wait in progress returns, every callback returning when its stream is
\* closed; and Wait has never returned while a spawned task is running.
C13_WaitCompletes ==
    /\ WaitPre ~> (waitPc = "returned")
    /\ [](waitPc = "returned" => RunningTasks(streams) = {})

C13_Witness ==
    /\ waitPc = "returned"
    /\ \E i \in 1..Len(streams) : Registered(i) /\ streams[i].closed

\* C14: the WaitGroup counter is never negative and equals the number of
\* spawned tasks that have not finished, whether their callbacks return
\* or panic: one increment before the spawn, one decrement per task.
C14_TrackerCountsRunningTasks ==
    /\ group >= 0
    /\ group = Cardinality(RunningTasks(streams))

C14_Witness ==
    \E i, j \in 1..Len(streams) :
        /\ streams[i].panicked /\ streams[i].task = "done"
        /\ ~streams[j].panicked /\ streams[j].task = "done"
        /\ group = 0

\* C15: when stream.Close fails while a CloseStreamFrame is handled, the
\* id is still removed from the Connector and Run goes on reading.
C15_CloseFailureStillRemoves ==
    \A k \in 1..Len(log) :
        (log[k].kind = "CloseStream" /\ log[k].close = "fail") =>
            /\ log[k].before[log[k].id] # 0
            /\ log[k].after = [log[k].before EXCEPT ![log[k].id] = 0]
            /\ log[k].closes = 1
            /\ log[k].pc = "Reading" /\ log[k].ret = "pending"

C15_Witness ==
    \E k \in 1..(Len(log) - 1) :
        /\ log[k].kind = "CloseStream" /\ log[k].close = "fail"
        /\ log[k + 1].kind = "Handshake"

\* C16: a control frame that is neither a HandshakeFrame nor a
\* CloseStreamFrame changes neither the Connector, the WaitGroup, the open
\* streams nor the tasks, writes nothing, and Run goes on reading.
C16_OtherFrameIgnored ==
    \A k \in 1..Len(log) :
        log[k].kind \in OtherKinds =>
            /\ log[k].after = log[k].before
            /\ log[k].groupDelta = 0
            /\ log[k].opened = 0 /\ log[k].closes = 0
            /\ log[k].spawned = 0 /\ ~log[k].tasksTouched
            /\ log[k].ctrlWrites = 0 /\ log[k].streamWrites = 0
            /\ log[k].pc = "Reading" /\ log[k].ret = "pending"

C16_Witness ==
    \E k \in 1..(Len(log) - 1) :
        /\ log[k].kind \in OtherKinds
        /\ Present(log[k].before) # {}
        /\ log[k + 1].kind = "CloseStream"

\* C17 as stated: Run returns only when a control-stream read fails, and
\* what it returns is that read error.
C17_ReturnsOnlyReadError ==
    runPc = "returned" =>
        /\ runRet = ErrRead
        /\ log[Len(log)].kind = ErrRead

\* C17 amended: Run returns only when a control-stream read fails or
\* OpenStreamSync fails for a handshake; it returns that error, never nil,
\* and only the last frame it read ends it.
C17_ReturnsReadOrOpenError ==
    /\ runPc = "returned" =>
          /\ Len(log) >= 1
          /\ \/ runRet = ErrRead /\ log[Len(log)].kind = ErrRead
             \/ /\ runRet = ErrOpen
                /\ log[Len(log)].kind = "Handshake" /\ log[Len(log)].open = "fail"
    /\ runPc # "returned" => runRet = "pending"
    /\ \A k \in 1..Len(log) :
          /\ log[k].pc = "returned" <=>
                (log[k].kind = ErrRead \/ log[k].open = "fail")
          /\ log[k].pc = "returned" => k = Len(log)

C17_Witness ==
    /\ runPc = "returned" /\ runRet = ErrOpen
    /\ Len(log) >= 2 /\ RegisteredAt(1)

\* C18: Clean has run for every task that has decremented the WaitGroup,
\* so when Wait has returned Clean has run for every spawned task.
C18_CleanBeforeDone ==
    /\ \A i \in 1..Len(streams) : streams[i].task = "done" => streams[i].cleaned
    /\ waitPc = "returned" =>
          \A i \in 1..Len(streams) : Registered(i) => streams[i].cleaned

C18_Witness ==
    /\ waitPc = "returned"
    /\ \E i \in 1..Len(streams) : Registered(i) /\ streams[i].cleaned

\* C19: at most one caller of connection.Write is inside stream.Write at a
\* time, and it holds the mutex; the bytes of a frame lie next to each
\* other on the stream, in order, with no byte of another frame between.
C19_WritesMutuallyExclusive ==
    /\ \A v, w \in Writers :
          (wpc[v] = "writing" /\ wpc[w] = "writing") => v = w
    /\ \A w \in Writers : wpc[w] = "writing" => mu = w
    /\ \A p, q \in 1..Len(wire) :
          (/\ p < q
           /\ wire[p].writer = wire[q].writer /\ wire[p].frame = wire[q].frame) =>
              \A r \in p..q :
                  /\ wire[r].writer = wire[p].writer
                  /\ wire[r].frame = wire[p].frame

C19_Witness ==
    /\ \E p, q \in 1..Len(wire) : wire[p].writer # wire[q].writer
    /\ \E v, w \in Writers : v # w /\ wpc[v] = "writing" /\ wpc[w] = "idle"
                               /\ wdone[w] < MaxWrites /\ Sent(v) = 1

\* C20: when the first read of the control stream fails,
\* VerifyAuthentication returns the read error, writes no response, does
\* not call verifyFunc and does not close the connection.
C20_ReadErrorReturned ==
    (AuthReturned /\ authFirst = ErrRead) =>
        /\ authRet = ErrRead
        /\ ctrlOut = <<>>
        /\ authVerdict = "notcalled"
        /\ connCloses = <<>>

C20_Witness == AuthReturned /\ authFirst = ErrRead /\ authRet = ErrRead

====
